---- MODULE Spec2Model ----
(***************************************************************************)
(* The penguin dashboard: a Flask application that mounts three Dash       *)
(* applications (histograms, linear regression, multiple regression).      *)
(* Every Dash callback receives the current values of its page's radio     *)
(* buttons, builds an SQL query by string concatenation, runs it against   *)
(* the bundled SQLite table palmerpenguins, cleans the result and plots    *)
(* it.                                                                     *)
(*                                                                         *)
(* Strings are TLA+ strings: query texts are built with \o exactly as the  *)
(* f-strings build them, and the SQL engine reads them back character by   *)
(* character.                                                              *)
(***************************************************************************)
EXTENDS Integers, Sequences, FiniteSets, TLC

\* The number of requests (page loads, radio changes and crafted requests)
\* that one behaviour may hold.
MaxRequests == 2

VARIABLES
    boot,           \* the number of statements of app.py that have run
    app,            \* sys.path, sys.modules and the URL map of the server
    GraphUtils,     \* the class attributes labels and colours of data_viz
    client,         \* per page, the browser: its radio buttons and graph
    inv,            \* per page, the callback invocation and where it stands
    remembered,     \* one of the figures a callback has returned, with its inputs
    requests        \* the number of requests made so far

-----------------------------------------------------------------------------
(* GraphUtils                                                              *)

\* The two dictionaries as the class body writes them.  Every object of
\* the three classes reads them through the class; none has a copy.

\* The two delta labels are written in ASCII here.
labels ==
    [culmen_length_mm  |-> "Culmen Length (mm)",
     culmen_depth_mm   |-> "Culmen Depth (mm)",
     flipper_length_mm |-> "Flipper Length (mm)",
     body_mass_g       |-> "Body Mass (g)",
     delta_15_N_ppt    |-> "d15N (permil)",
     delta_13_C_ppt    |-> "d13C (permil)"]

colours ==
    ("'Adelie%'" :> "deeppink") @@
    ("'Chinstrap%'" :> "black") @@
    ("'Gentoo%'" :> "darkorange") @@
    (" AND sex LIKE 'MALE'" :> "green") @@
    (" AND sex LIKE 'FEMALE'" :> "yellow")

\* The class once data_viz has been imported, and before.
ClassBody == [labels |-> labels, colours |-> colours]
NotImported == [labels |-> [name \in {} |-> ""], colours |-> [name \in {} |-> ""]]

-----------------------------------------------------------------------------
(* The radio buttons of the three pages                                    *)

Pages == {"histograms", "linear_regression", "multiple_regression"}

VariableOptions ==
    {"culmen_length_mm", "culmen_depth_mm", "flipper_length_mm",
     "body_mass_g", "delta_15_N_ppt", "delta_13_C_ppt"}

HistSpeciesOptions ==
    {"", " AND species LIKE 'Adelie%'", " AND species LIKE 'Chinstrap%'",
     " AND species LIKE 'Gentoo%'"}

HistSexOptions == {"", " AND sex LIKE 'MALE'", " AND sex LIKE 'FEMALE'"}

RegressionSpeciesOptions == {"'Adelie%'", "'Chinstrap%'", "'Gentoo%'"}

\* The option values of each input of a page, in the order of the
\* callback's parameters.
Options(page) ==
    CASE page = "histograms" ->
           <<HistSpeciesOptions, HistSexOptions, VariableOptions>>
      [] page = "linear_regression" ->
           <<RegressionSpeciesOptions, VariableOptions, VariableOptions>>
      [] page = "multiple_regression" ->
           <<RegressionSpeciesOptions, VariableOptions, VariableOptions,
             VariableOptions>>

\* The value= of each RadioItems: the selection a freshly loaded page shows.
Defaults(page) ==
    CASE page = "histograms" -> <<"", "", "flipper_length_mm">>
      [] page = "linear_regression" ->
           <<"'Adelie%'", "body_mass_g", "flipper_length_mm">>
      [] page = "multiple_regression" ->
           <<"'Adelie%'", "body_mass_g", "culmen_length_mm",
             "culmen_depth_mm">>

\* A callback parameter is a str: Dash passes on whatever value the request
\* body holds.  These stand for the values that are no option of the input
\* they are sent for.
CraftedStrings == {" OR 1=1", " AND sex LIKE 'MALE'"}

-----------------------------------------------------------------------------
(* The table palmerpenguins                                                *)

Num(n) == [k |-> "num", n |-> n, s |-> ""]
Str(s) == [k |-> "str", n |-> 0, s |-> s]
Null   == [k |-> "null", n |-> 0, s |-> ""]
NaN    == [k |-> "nan", n |-> 0, s |-> ""]

Row(species, sex, cl, cd, fl, bm, dn, dc) ==
    [species |-> species, sex |-> sex,
     culmen_length_mm |-> cl, culmen_depth_mm |-> cd,
     flipper_length_mm |-> fl, body_mass_g |-> bm,
     delta_15_N_ppt |-> dn, delta_13_C_ppt |-> dc]

Adelie    == Str("Adelie Penguin (Pygoscelis adeliae)")
Chinstrap == Str("Chinstrap penguin (Pygoscelis antarctica)")
Gentoo    == Str("Gentoo penguin (Pygoscelis papua)")

\* Every species has rows of both sexes with all six measurements, and the
\* table holds rows whose sex or measurements are NULL, empty or blank.
palmerpenguins ==
    << Row(Adelie, Str("MALE"), Num(39), Num(18), Num(181), Num(3750),
           Num(8), Num(25)),
       Row(Adelie, Str("FEMALE"), Num(36), Num(17), Num(186), Num(3450),
           Num(9), Num(26)),
       Row(Adelie, Null, Null, Null, Null, Null, Str(""), Num(24)),
       Row(Chinstrap, Str("MALE"), Num(50), Num(19), Num(196), Num(3900),
           Num(9), Num(24)),
       Row(Chinstrap, Str("FEMALE"), Num(46), Num(17), Num(192), Num(3500),
           Num(10), Num(25)),
       Row(Chinstrap, Str("FEMALE"), Num(45), Str(" "), Num(190), Num(3600),
           Null, Num(24)),
       Row(Gentoo, Str("MALE"), Num(49), Num(15), Num(220), Num(5500),
           Num(8), Num(26)),
       Row(Gentoo, Str("FEMALE"), Num(45), Num(14), Num(210), Num(4700),
           Num(8), Num(27)),
       Row(Gentoo, Str("."), Num(44), Num(15), Str(""), Num(4800),
           Num(9), Null) >>

TableColumns == DOMAIN palmerpenguins[1]

-----------------------------------------------------------------------------
(* The SQL engine: SELECT <columns> FROM palmerpenguins WHERE <condition>  *)

IsSpace(c) == c \in {" ", "\n", "\t", "\r"}

\* The one element of a set of one element.  {e(v) : v \in {d}} is "e with
\* v standing for the value of d".
The(S) == CHOOSE e \in S : TRUE

\* The tokens of s, given which of its characters separate tokens and where
\* its tokens start: a token is a maximal run of characters that are
\* neither white space nor a comma, or a comma.
TokensFrom(s, sep, starts) ==
    LET n      == Len(s)
        end(i) == IF SubSeq(s, i, i) = "," THEN i
                  ELSE CHOOSE j \in i..n :
                         /\ j = n \/ sep[j + 1]
                         /\ \A m \in i..j : ~sep[m]
        nth(t) == CHOOSE i \in starts :
                     Cardinality({j \in starts : j < i}) = t - 1
    IN  [t \in 1..Cardinality(starts) |-> SubSeq(s, nth(t), end(nth(t)))]

TokenStarts(s, sep) ==
    {i \in 1..Len(s) : \/ SubSeq(s, i, i) = ","
                       \/ ~sep[i] /\ (i = 1 \/ sep[i - 1])}

Tokens(s) ==
    The({ The({ TokensFrom(s, sep, starts) : starts \in {TokenStarts(s, sep)} })
          : sep \in {[i \in 1..Len(s) |->
                        IsSpace(SubSeq(s, i, i)) \/ SubSeq(s, i, i) = ","]} })

\* The index of the first occurrence of tok in toks at or after i, or 0.
RECURSIVE IndexOf(_, _, _)
IndexOf(toks, tok, i) ==
    IF i > Len(toks) THEN 0
    ELSE IF toks[i] = tok THEN i
    ELSE IndexOf(toks, tok, i + 1)

\* toks cut at every occurrence of sep.
RECURSIVE SplitOn(_, _)
SplitOn(toks, sep) ==
    LET j == IndexOf(toks, sep, 1)
    IN  IF j = 0 THEN <<toks>>
        ELSE <<SubSeq(toks, 1, j - 1)>>
               \o SplitOn(SubSeq(toks, j + 1, Len(toks)), sep)

IsQuoted(tok) ==
    /\ Len(tok) >= 2
    /\ SubSeq(tok, 1, 1) = "'"
    /\ SubSeq(tok, Len(tok), Len(tok)) = "'"

\* value LIKE pattern, for a pattern that is a literal or a literal
\* followed by %.  The stored values and the patterns use one case.
Like(value, pattern) ==
    IF pattern # "" /\ SubSeq(pattern, Len(pattern), Len(pattern)) = "%"
    THEN LET prefix == SubSeq(pattern, 1, Len(pattern) - 1)
         IN  /\ Len(value) >= Len(prefix)
             /\ SubSeq(value, 1, Len(prefix)) = prefix
    ELSE value = pattern

\* A term of a condition: 1=1, or <column> LIKE '<pattern>'.
TermOk(term) ==
    \/ term = <<"1=1">>
    \/ /\ Len(term) = 3
       /\ term[1] \in TableColumns
       /\ term[2] = "LIKE"
       /\ IsQuoted(term[3])

TermHolds(term, row) ==
    \/ term = <<"1=1">>
    \/ /\ Len(term) = 3
       /\ row[term[1]].k = "str"
       /\ Like(row[term[1]].s, SubSeq(term[3], 2, Len(term[3]) - 1))

\* The select list: column names separated by commas.
SelectListOk(toks) ==
    /\ Len(toks) % 2 = 1
    /\ \A i \in 1..Len(toks) :
          IF i % 2 = 1 THEN toks[i] \in TableColumns ELSE toks[i] = ","

SelectColumns(toks) == [i \in 1..((Len(toks) + 1) \div 2) |-> toks[2 * i - 1]]

\* What the engine makes of the tokens of a statement: whether it is one
\* it can run (else it raises OperationalError), its columns and its
\* condition as a disjunction of conjunctions of terms.
ParseTokens(toks) ==
    LET from   == IndexOf(toks, "FROM", 1)
        where  == IndexOf(toks, "WHERE", 1)
        wellFormed ==
            /\ Len(toks) >= 6
            /\ toks[1] = "SELECT"
            /\ from >= 3
            /\ where = from + 2
            /\ toks[from + 1] = "palmerpenguins"
            /\ where < Len(toks)
        list   == SubSeq(toks, 2, from - 1)
        cond   == SubSeq(toks, where + 1, Len(toks))
        groups == [g \in 1..Len(SplitOn(cond, "OR")) |->
                      SplitOn(SplitOn(cond, "OR")[g], "AND")]
        ok     == /\ wellFormed
                  /\ SelectListOk(list)
                  /\ \A g \in 1..Len(groups) :
                        \A t \in 1..Len(groups[g]) : TermOk(groups[g][t])
    IN  [ok |-> ok,
         columns |-> IF ok THEN SelectColumns(list) ELSE <<>>,
         groups |-> IF ok THEN groups ELSE <<>>]

ParseQuery(sqltext) == The({ ParseTokens(toks) : toks \in {Tokens(sqltext)} })

RowMatches(groups, row) ==
    \E g \in 1..Len(groups) :
        \A t \in 1..Len(groups[g]) : TermHolds(groups[g][t], row)

RECURSIVE SelectRows(_, _, _)
SelectRows(table, parsed, i) ==
    IF i > Len(table) THEN <<>>
    ELSE (IF RowMatches(parsed.groups, table[i])
          THEN << [c \in 1..Len(parsed.columns) |->
                      table[i][parsed.columns[c]]] >>
          ELSE <<>>)
         \o SelectRows(table, parsed, i + 1)

-----------------------------------------------------------------------------
(* Dataframes and _create_dataframe                                        *)

\* A dataframe keeps the columns of the result in their order, two of the
\* same name included; NoneValue is Python's None.
NoneValue == [isNone |-> TRUE, columns |-> <<>>, rows |-> <<>>]
DataFrame(columns, rows) == [isNone |-> FALSE, columns |-> columns, rows |-> rows]

\* pd.read_sql_query: the result of the statement, or OperationalError when
\* the database cannot be opened or the statement cannot be run.
ReadSqlQuery(query, available) ==
    The({ IF available /\ parsed.ok
          THEN [raised |-> FALSE,
                df |-> DataFrame(parsed.columns,
                                 SelectRows(palmerpenguins, parsed, 1))]
          ELSE [raised |-> TRUE, df |-> NoneValue]
          : parsed \in {ParseQuery(query)} })

\* The regular expression ^\s*$
IsBlank(s) == \A i \in 1..Len(s) : IsSpace(SubSeq(s, i, i))

\* A replace that takes the empty string only, as the pattern ^$ would.
ReplaceEmpty(df) ==
    [df EXCEPT !.rows =
        [r \in 1..Len(df.rows) |->
            [c \in 1..Len(df.rows[r]) |->
                LET cell == df.rows[r][c]
                IN  IF cell.k = "str" /\ cell.s = "" THEN NaN ELSE cell]]]

\* df.replace(r"^\s*$", np.nan, regex=True)
ReplaceBlank(df) ==
    [df EXCEPT !.rows =
        [r \in 1..Len(df.rows) |->
            [c \in 1..Len(df.rows[r]) |->
                LET cell == df.rows[r][c]
                IN  IF cell.k = "str" /\ IsBlank(cell.s) THEN NaN ELSE cell]]]

IsNa(cell) == cell.k \in {"null", "nan"}

\* df.dropna()
Dropna(df) ==
    [df EXCEPT !.rows =
        SelectSeq(df.rows, LAMBDA row : \A c \in 1..Len(row) : ~IsNa(row[c]))]

\* The cleaned frame: replace, then dropna.
Cleaned(df) == The({ Dropna(blanked) : blanked \in {ReplaceBlank(df)} })

\* A _create_dataframe that runs the query a second time when the first
\* attempt has failed.
CreateDataframeRetrying(query, available) ==
    The({ [df |-> IF result.raised THEN NoneValue ELSE Cleaned(result.df),
           engines |-> 1,
           queries |-> IF result.raised THEN 2 ELSE 1,
           logged |-> IF result.raised THEN 1 ELSE 0]
          : result \in {ReadSqlQuery(query, available)} })

\* _create_dataframe: one engine, one query; an error is logged and nothing
\* is returned.
CreateDataframe(query, available) ==
    The({ [df |-> IF result.raised THEN NoneValue ELSE Cleaned(result.df),
           engines |-> 1,
           queries |-> 1,
           logged |-> IF result.raised THEN 1 ELSE 0]
          : result \in {ReadSqlQuery(query, available)} })

-----------------------------------------------------------------------------
(* Figures                                                                 *)

Trace(type, xs, ys, zs) ==
    [type |-> type, x |-> xs, y |-> ys, z |-> zs,
     marker_color |-> "", nbins |-> 0]

\* dcc.Graph(figure={})
EmptyFigure ==
    [data |-> <<>>, title |-> "", xaxis_title |-> "", yaxis_title |-> "",
     zaxis_title |-> "", plot_bgcolor |-> "", paper_bgcolor |-> ""]

\* The outcome of a method: the figure it returns, or the exception it
\* raises.
Returned(fig) == [raised |-> "", fig |-> fig]
Raised(exception) == [raised |-> exception, fig |-> EmptyFigure]

\* The positions of the columns called name.
Positions(df, name) == {c \in 1..Len(df.columns) : df.columns[c] = name}

HasColumn(df, name) == Cardinality(Positions(df, name)) = 1

\* df[name], for a name that one column has.
Column(df, name) ==
    LET c == CHOOSE c \in Positions(df, name) : TRUE
    IN  [r \in 1..Len(df.rows) |-> df.rows[r][c]]

\* Plotly Express takes each of the named columns of the frame: it raises
\* ValueError when the frame is None, and when a name is not that of one
\* column.
ExpressAccepts(df, names) ==
    IF df.isNone THEN "ValueError"
    ELSE IF \E name \in names : ~HasColumn(df, name) THEN "ValueError"
    ELSE ""

\* int(sqrt(n))
IntSqrt(n) == CHOOSE r \in 0..n : r * r <= n /\ (r + 1) * (r + 1) > n

\* s[m:], s[m:-n] for 0-based m
SliceFrom(s, m) == SubSeq(s, m + 1, Len(s))
Slice(s, m, n) == SubSeq(s, m + 1, Len(s) - n)

SetColour(traces, colour) ==
    [t \in 1..Len(traces) |-> [traces[t] EXCEPT !.marker_color = colour]]

-----------------------------------------------------------------------------
(* class Histogram                                                         *)

\* __init__: the attributes of the new object, or KeyError.
Histogram(species, sex, variable) ==
    IF variable \notin DOMAIN GraphUtils.labels THEN [raised |-> "KeyError"]
    ELSE [raised |-> "", species |-> species, sex |-> sex,
          variable |-> variable, variable_label |-> GraphUtils.labels[variable]]

\* The text build_query hands to _create_graph.
SelectFrom(variable) ==
    "SELECT " \o variable \o "\n                    FROM palmerpenguins"
              \o "\n                    WHERE 1=1"

\* A build_query that leaves the sex filter out when both filters are set.
HistogramBuildQueryNoSex(self) ==
    LET query == SelectFrom(self.variable)
    IN  IF self.species # "" /\ self.sex # ""
        THEN query \o self.species
        ELSE IF self.species # "" THEN query \o self.species
        ELSE IF self.sex # "" THEN query \o self.sex
        ELSE query

\* A build_query whose third branch forgets its filter.
HistogramBuildQueryBareElif(self) ==
    LET query == SelectFrom(self.variable)
    IN  IF self.species # "" /\ self.sex # ""
        THEN query \o self.species \o self.sex
        ELSE IF self.species # "" THEN query \o self.species
        ELSE query

HistogramBuildQuery(self) ==
    LET query == SelectFrom(self.variable)
    IN  IF self.species # "" /\ self.sex # ""
        THEN query \o self.species \o self.sex
        ELSE IF self.species # "" THEN query \o self.species
        ELSE IF self.sex # "" THEN query \o self.sex
        ELSE query

sex_labels ==
    ("" :> "") @@ (" AND sex LIKE 'MALE'" :> " Male") @@
    (" AND sex LIKE 'FEMALE'" :> " Female")

species_labels ==
    ("" :> "Adelie, Chinstrap, and Gentoo") @@
    (" AND species LIKE 'Adelie%'" :> "Adelie") @@
    (" AND species LIKE 'Chinstrap%'" :> "Chinstrap") @@
    (" AND species LIKE 'Gentoo%'" :> "Gentoo")

\* A marker colour that lets the sex go before the species.
HistogramColourKeySexFirst(self) ==
    IF self.sex # "" THEN self.sex
    ELSE IF self.species # "" THEN SliceFrom(self.species, 18)
    ELSE ""

\* The marker colour: the key it is looked up under, and "" for the default.
HistogramColourKey(self) ==
    IF self.species # "" THEN SliceFrom(self.species, 18)
    ELSE IF self.sex # "" THEN self.sex
    ELSE ""

\* _create_graph, from the dataframe on.
HistogramCreateGraph(self, df) ==
    IF df.isNone THEN Raised("AttributeError")
    ELSE IF ExpressAccepts(df, {self.variable}) # ""
    THEN Raised(ExpressAccepts(df, {self.variable}))
    ELSE IF self.sex \notin DOMAIN sex_labels
            \/ self.species \notin DOMAIN species_labels
    THEN Raised("KeyError")
    ELSE IF HistogramColourKey(self) \notin DOMAIN GraphUtils.colours \cup {""}
    THEN Raised("KeyError")
    ELSE LET key == HistogramColourKey(self)
             bar == [Trace("histogram", Column(df, self.variable), <<>>, <<>>)
                       EXCEPT !.nbins = IntSqrt(Len(df.rows))]
         IN  Returned(
               [EmptyFigure EXCEPT
                  !.data = SetColour(<<bar>>,
                             IF key = "" THEN "cornflowerblue"
                             ELSE GraphUtils.colours[key]),
                  !.title = "What is the Distribution of "
                            \o self.variable_label \o " amongst"
                            \o sex_labels[self.sex] \o " "
                            \o species_labels[self.species] \o " Penguins?",
                  !.xaxis_title = self.variable_label,
                  !.yaxis_title = "Probability"])

-----------------------------------------------------------------------------
(* class LinearRegression                                                  *)

LinearRegression(species, explanatory, response) ==
    IF \/ explanatory \notin DOMAIN GraphUtils.labels
       \/ response \notin DOMAIN GraphUtils.labels
       \/ species \notin DOMAIN GraphUtils.colours
    THEN [raised |-> "KeyError"]
    ELSE [raised |-> "", species |-> species, explanatory |-> explanatory,
          response |-> response,
          explanatory_label |-> GraphUtils.labels[explanatory],
          response_label |-> GraphUtils.labels[response],
          species_colour |-> GraphUtils.colours[species]]

LinearRegressionBuildQuery(self) ==
    "SELECT " \o self.explanatory \o ", " \o self.response
      \o "\n                         FROM palmerpenguins "
      \o "\n                         WHERE species "
      \o "\n                         LIKE " \o self.species

\* _create_graph, from the dataframe on.  The trendline trace stands for
\* the least squares line of the points it holds; Plotly Express fits it
\* when the frame has more than one row, and get_trendline_results has no
\* row to read otherwise.
LinearRegressionCreateGraph(self, df) ==
    IF ExpressAccepts(df, {self.explanatory, self.response}) # ""
    THEN Raised(ExpressAccepts(df, {self.explanatory, self.response}))
    ELSE IF Len(df.rows) <= 1 THEN Raised("IndexError")
    ELSE LET xs == Column(df, self.explanatory)
             ys == Column(df, self.response)
         IN  Returned(
               [EmptyFigure EXCEPT
                  !.data = SetColour(<<Trace("scatter", xs, ys, <<>>),
                                       Trace("ols trendline", xs, ys, <<>>)>>,
                                     self.species_colour),
                  !.title = "What is the Correlation between "
                            \o Slice(self.species, 1, 2) \o " "
                            \o self.explanatory_label \o " and "
                            \o self.response_label \o "?",
                  !.xaxis_title = self.explanatory_label,
                  !.yaxis_title = self.response_label])

-----------------------------------------------------------------------------
(* class MultipleRegression                                                *)

MultipleRegression(species, first_explanatory, second_explanatory, response) ==
    IF \/ first_explanatory \notin DOMAIN GraphUtils.labels
       \/ second_explanatory \notin DOMAIN GraphUtils.labels
       \/ response \notin DOMAIN GraphUtils.labels
       \/ species \notin DOMAIN GraphUtils.colours
    THEN [raised |-> "KeyError"]
    ELSE [raised |-> "", species |-> species,
          first_explanatory |-> first_explanatory,
          second_explanatory |-> second_explanatory,
          response |-> response,
          first_explanatory_label |-> GraphUtils.labels[first_explanatory],
          second_explanatory_label |-> GraphUtils.labels[second_explanatory],
          response_label |-> GraphUtils.labels[response],
          species_colour |-> GraphUtils.colours[species]]

MultipleRegressionBuildQuery(self) ==
    "SELECT " \o self.first_explanatory \o ", "
      \o "\n                                " \o self.second_explanatory \o ","
      \o "\n                                " \o self.response
      \o "\n                         FROM palmerpenguins "
      \o "\n                         WHERE species "
      \o "\n                         LIKE " \o self.species

\* _create_graph, from the dataframe to the call of _fit_model: the 3D
\* scattergraph.
MultipleRegressionCreateGraph(self, df) ==
    LET names == {self.first_explanatory, self.second_explanatory,
                  self.response}
    IN  IF ExpressAccepts(df, names) # "" THEN Raised(ExpressAccepts(df, names))
        ELSE Returned(
               [EmptyFigure EXCEPT
                  !.data = SetColour(
                     <<Trace("scatter3d", Column(df, self.first_explanatory),
                             Column(df, self.second_explanatory),
                             Column(df, self.response))>>,
                     self.species_colour),
                  !.title = "Can " \o Slice(self.species, 1, 2) \o " "
                            \o self.first_explanatory_label \o " and "
                            \o self.second_explanatory_label
                            \o " Help Predict " \o self.response_label \o "?",
                  !.xaxis_title = self.first_explanatory_label,
                  !.yaxis_title = self.second_explanatory_label,
                  !.zaxis_title = self.response_label])

\* _fit_model: sm.OLS(y, sm.add_constant(X)).fit().  The model stands for
\* the least squares fit of the rows it holds; OLS raises ValueError on no
\* rows.
FitModel(self, df) ==
    IF Len(df.rows) = 0 THEN [raised |-> "ValueError"]
    ELSE [raised |-> "",
          constant |-> TRUE,
          exog |-> <<Column(df, self.first_explanatory),
                     Column(df, self.second_explanatory)>>,
          endog |-> Column(df, self.response)]

Least(cells) ==
    CHOOSE c \in {cells[i] : i \in DOMAIN cells} :
        \A i \in DOMAIN cells : c.n <= cells[i].n

Greatest(cells) ==
    CHOOSE c \in {cells[i] : i \in DOMAIN cells} :
        \A i \in DOMAIN cells : c.n >= cells[i].n

\* _draw_plane: the plane of the model over the grid from the least to the
\* greatest value of each explanatory variable, added to the figure.
DrawPlane(first_explanatory, second_explanatory, model, fig) ==
    [fig EXCEPT !.data =
        Append(fig.data,
               Trace("surface",
                     <<Least(first_explanatory), Greatest(first_explanatory)>>,
                     <<Least(second_explanatory), Greatest(second_explanatory)>>,
                     model.endog))]

-----------------------------------------------------------------------------
(* app.py: the start of the server                                         *)

Statement(op, arg) == [op |-> op, arg |-> arg]

\* The statements of app.py in their order.
AppScript ==
    << Statement("path_append", "././"),
       Statement("import", "histograms"),
       Statement("import", "linear_regression"),
       Statement("import", "multiple_regression"),
       Statement("flask", ""),
       Statement("init_dash_app", "histograms"),
       Statement("init_dash_app", "linear_regression"),
       Statement("init_dash_app", "multiple_regression"),
       Statement("route", "/"),
       Statement("route", "/glossary/") >>

\* Every page module appending plotly_dash/ to sys.path, linear_regression
\* too.
AppendsPathEverywhere ==
    {"histograms", "linear_regression", "multiple_regression"}

\* The page modules that append plotly_dash/ to sys.path before they
\* import data_viz.
AppendsPath == {"histograms", "multiple_regression"}

\* url_base_pathname of each Dash application.
UrlBasePathname(page) == "/" \o page \o "/"

InSeq(e, seq) == \E i \in 1..Len(seq) : seq[i] = e

\* The interpreter after one statement.
Execute(stmt, st) ==
    CASE stmt.op = "path_append" ->
           [st EXCEPT !.sys_path = Append(@, stmt.arg)]
      [] stmt.op = "import" ->
           LET path == IF stmt.arg \in AppendsPath
                       THEN Append(st.sys_path, "plotly_dash/")
                       ELSE st.sys_path
               found == "data_viz" \in st.modules \/ InSeq("plotly_dash/", path)
           IN  IF found
               THEN [st EXCEPT !.sys_path = path,
                               !.modules = @ \cup {"data_viz", stmt.arg}]
               ELSE [st EXCEPT !.sys_path = path, !.import_error = TRUE]
      [] stmt.op = "flask" -> st
      [] stmt.op = "init_dash_app" ->
           [st EXCEPT !.routes =
               @ \cup {[rule |-> UrlBasePathname(stmt.arg), serves |-> stmt.arg]}]
      [] stmt.op = "route" ->
           [st EXCEPT !.routes = @ \cup {[rule |-> stmt.arg, serves |-> "template"]}]

Interpreter ==
    [sys_path |-> <<>>, modules |-> {}, routes |-> {}, import_error |-> FALSE]

RECURSIVE After(_)
After(n) == IF n = 0 THEN Interpreter ELSE Execute(AppScript[n], After(n - 1))

-----------------------------------------------------------------------------
(* The state                                                               *)

vars == <<boot, app, GraphUtils, client, inv, remembered, requests>>

Unloaded == [loaded |-> FALSE, sel |-> <<>>, figure |-> EmptyFigure]

NoObject == [raised |-> "none"]

\* A callback invocation that has just been called with args.
Called(origin, args) ==
    [pc |-> "called", origin |-> origin, args |-> args, self |-> NoObject,
     query |-> "", df |-> NoneValue, fig |-> EmptyFigure, model |-> NoObject,
     engines |-> 0, queries |-> 0, logged |-> 0, calls |-> <<>>,
     raised |-> ""]

Idle == [Called("", <<>>) EXCEPT !.pc = "idle"]

Serving == boot = Len(AppScript) /\ ~app.import_error

\* No figure is remembered.
Nothing == [page |-> "", args |-> <<>>, figure |-> EmptyFigure]

InFlight(p) == inv[p].pc # "idle"

Init ==
    /\ boot = 0
    /\ app = Interpreter
    /\ GraphUtils = NotImported
    /\ client = [p \in Pages |-> Unloaded]
    /\ inv = [p \in Pages |-> Idle]
    /\ remembered = Nothing
    /\ requests = 0

-----------------------------------------------------------------------------
(* The server starts and the user acts                                     *)

\* The next statement of app.py runs; an import that fails ends the start.
\* The first import of data_viz runs its class bodies.
Startup ==
    /\ boot < Len(AppScript)
    /\ ~app.import_error
    /\ boot' = boot + 1
    /\ app' = Execute(AppScript[boot + 1], app)
    /\ GraphUtils' = IF "data_viz" \in app'.modules /\ "data_viz" \notin app.modules
                     THEN ClassBody ELSE GraphUtils
    /\ UNCHANGED <<client, inv, remembered, requests>>

\* The browser opens a page, or opens it again: the layout shows the
\* default of every radio button and an empty graph, and Dash calls the
\* callback with the defaults.  The user waits for the answer to one request
\* before making the next.
Visit(p) ==
    /\ Serving
    /\ \E r \in app.routes : r.rule = UrlBasePathname(p) /\ r.serves = p
    /\ \A q \in Pages : ~InFlight(q)
    /\ requests < MaxRequests
    /\ client' = [client EXCEPT ![p] =
                     [loaded |-> TRUE, sel |-> Defaults(p),
                      figure |-> EmptyFigure]]
    /\ inv' = [inv EXCEPT ![p] = Called("ui", Defaults(p))]
    /\ requests' = requests + 1
    /\ UNCHANGED <<boot, app, GraphUtils, remembered>>

\* The user picks option v of radio button i: Dash calls the callback with
\* the current value of every input of the page.
SelectOption(p, i, v) ==
    /\ client[p].loaded
    /\ \A q \in Pages : ~InFlight(q)
    /\ requests < MaxRequests
    /\ v \in Options(p)[i] \ {client[p].sel[i]}
    /\ client' = [client EXCEPT ![p].sel[i] = v]
    /\ inv' = [inv EXCEPT ![p] = Called("ui", client'[p].sel)]
    /\ requests' = requests + 1
    /\ UNCHANGED <<boot, app, GraphUtils, remembered>>

\* A request to the callback's URL that no radio button made: input i holds
\* a value that is none of its options.  Its response goes to the sender,
\* not to the graph of the page.
CraftedRequest(p, i, v) ==
    /\ client[p].loaded
    /\ \A q \in Pages : ~InFlight(q)
    /\ requests < MaxRequests
    /\ v \in CraftedStrings \ Options(p)[i]
    /\ inv' = [inv EXCEPT ![p] =
                  Called("crafted", [client[p].sel EXCEPT ![i] = v])]
    /\ requests' = requests + 1
    /\ UNCHANGED <<boot, app, GraphUtils, client, remembered>>

-----------------------------------------------------------------------------
(* The callback, method by method                                          *)

\* Class(args)
New(p, args) ==
    CASE p = "histograms" -> Histogram(args[1], args[2], args[3])
      [] p = "linear_regression" -> LinearRegression(args[1], args[2], args[3])
      [] p = "multiple_regression" ->
           MultipleRegression(args[1], args[2], args[3], args[4])

BuildQueryOf(p, self) ==
    CASE p = "histograms" -> HistogramBuildQuery(self)
      [] p = "linear_regression" -> LinearRegressionBuildQuery(self)
      [] p = "multiple_regression" -> MultipleRegressionBuildQuery(self)

CreateGraphOf(p, self, df) ==
    CASE p = "histograms" -> HistogramCreateGraph(self, df)
      [] p = "linear_regression" -> LinearRegressionCreateGraph(self, df)
      [] p = "multiple_regression" -> MultipleRegressionCreateGraph(self, df)

\* A callback that draws on the figure the graph shows instead of returning
\* the figure it has just built.
UpdateGraphOverShown(p, fig) ==
    [fig EXCEPT !.data = client[p].figure.data \o @,
                !.plot_bgcolor = "rgba(255, 255, 255, 0.2)",
                !.paper_bgcolor = "rgba(0, 0, 0, 0)"]

\* The figure the callback returns: update_graph of the histograms and of
\* the linear regression sets the two background colours, update_graphs of
\* the multiple regression returns the figure as it is.
UpdateGraph(p, fig) ==
    IF p = "multiple_regression" THEN fig
    ELSE [fig EXCEPT !.plot_bgcolor = "rgba(255, 255, 255, 0.2)",
                     !.paper_bgcolor = "rgba(0, 0, 0, 0)"]

\* The invocation after a method has raised an exception no caller
\* catches.
Raise(p, exception, call) ==
    [inv[p] EXCEPT !.pc = "raised", !.raised = exception,
                   !.calls = Append(@, call)]

\* A constructor that writes to the dictionary all objects read: it
\* registers a colour of its own for the first species.
ConstructRecolouring(p) ==
    /\ inv[p].pc = "called"
    /\ LET self == New(p, inv[p].args)
       IN  inv' = [inv EXCEPT ![p] =
                     IF self.raised # "" THEN Raise(p, self.raised, "__init__")
                     ELSE [inv[p] EXCEPT !.pc = "constructed", !.self = self,
                                         !.calls = Append(@, "__init__")]]
    /\ GraphUtils' = [GraphUtils EXCEPT !.colours["'Adelie%'"] = "cornflowerblue"]
    /\ UNCHANGED <<boot, app, client, remembered, requests>>

Construct(p) ==
    /\ inv[p].pc = "called"
    /\ LET self == New(p, inv[p].args)
       IN  inv' = [inv EXCEPT ![p] =
                     IF self.raised # "" THEN Raise(p, self.raised, "__init__")
                     ELSE [inv[p] EXCEPT !.pc = "constructed", !.self = self,
                                         !.calls = Append(@, "__init__")]]
    /\ UNCHANGED <<boot, app, GraphUtils, client, remembered, requests>>

BuildQuery(p) ==
    /\ inv[p].pc = "constructed"
    /\ inv' = [inv EXCEPT ![p].pc = "built",
                          ![p].query = BuildQueryOf(p, inv[p].self),
                          ![p].calls = Append(@, "build_query")]
    /\ UNCHANGED <<boot, app, GraphUtils, client, remembered, requests>>

\* A _create_dataframe call that keeps the result of the inputs it has
\* served before and runs no query for them.
CreateDataframeCallCached(p, available) ==
    /\ inv[p].pc = "built"
    /\ \E got \in {CreateDataframe(inv[p].query, available)} :
           \E hit \in {remembered.page = p /\ remembered.args = inv[p].args} :
               inv' = [inv EXCEPT
                         ![p].pc = "loaded",
                         ![p].df = got.df,
                         ![p].engines = @ + (IF hit THEN 0 ELSE got.engines),
                         ![p].queries = @ + (IF hit THEN 0 ELSE got.queries),
                         ![p].logged = @ + got.logged,
                         ![p].calls = Append(@, "_create_dataframe")]
    /\ UNCHANGED <<boot, app, GraphUtils, client, remembered, requests>>

\* available: whether the database file can be opened and read when the
\* query runs.
CreateDataframeCall(p, available) ==
    /\ inv[p].pc = "built"
    /\ \E got \in {CreateDataframe(inv[p].query, available)} :
           inv' = [inv EXCEPT ![p].pc = "loaded",
                              ![p].df = got.df,
                              ![p].engines = @ + got.engines,
                              ![p].queries = @ + got.queries,
                              ![p].logged = @ + got.logged,
                              ![p].calls = Append(@, "_create_dataframe")]
    /\ UNCHANGED <<boot, app, GraphUtils, client, remembered, requests>>

CreateGraph(p) ==
    /\ inv[p].pc = "loaded"
    /\ \E got \in {CreateGraphOf(p, inv[p].self, inv[p].df)} :
           inv' = [inv EXCEPT ![p] =
                     IF got.raised # "" THEN Raise(p, got.raised, "_create_graph")
                     ELSE [inv[p] EXCEPT
                             !.pc = IF p = "multiple_regression"
                                    THEN "scattered" ELSE "figure",
                             !.fig = got.fig,
                             !.calls = Append(@, "_create_graph")]]
    /\ UNCHANGED <<boot, app, GraphUtils, client, remembered, requests>>

FitModelCall(p) ==
    /\ inv[p].pc = "scattered"
    /\ LET model == FitModel(inv[p].self, inv[p].df)
       IN  inv' = [inv EXCEPT ![p] =
                     IF model.raised # "" THEN Raise(p, model.raised, "_fit_model")
                     ELSE [inv[p] EXCEPT !.pc = "fitted", !.model = model,
                                         !.calls = Append(@, "_fit_model")]]
    /\ UNCHANGED <<boot, app, GraphUtils, client, remembered, requests>>

DrawPlaneCall(p) ==
    /\ inv[p].pc = "fitted"
    /\ inv' = [inv EXCEPT
                 ![p].pc = "figure",
                 ![p].fig = DrawPlane(inv[p].model.exog[1], inv[p].model.exog[2],
                                      inv[p].model, inv[p].fig),
                 ![p].calls = Append(@, "_draw_plane")]
    /\ UNCHANGED <<boot, app, GraphUtils, client, remembered, requests>>

\* A response that every loaded page's graph takes.
ReturnToEveryGraph(p) ==
    /\ inv[p].pc = "figure"
    /\ LET figure == UpdateGraph(p, inv[p].fig)
       IN  /\ inv' = [inv EXCEPT ![p] = Idle]
           /\ remembered' \in
                 {remembered,
                  [page |-> p, args |-> inv[p].args, figure |-> figure]}
           /\ client' = IF inv[p].origin = "ui"
                        THEN [q \in Pages |->
                                 IF client[q].loaded
                                 THEN [client[q] EXCEPT !.figure = figure]
                                 ELSE client[q]]
                        ELSE client
    /\ UNCHANGED <<boot, app, GraphUtils, requests>>

\* The callback returns its figure: Dash sends it, and the graph of the
\* page that asked shows it.
Return(p) ==
    /\ inv[p].pc = "figure"
    /\ LET figure == UpdateGraph(p, inv[p].fig)
       IN  /\ inv' = [inv EXCEPT ![p] = Idle]
           /\ remembered' \in
                 {remembered,
                  [page |-> p, args |-> inv[p].args, figure |-> figure]}
           /\ client' = IF inv[p].origin = "ui"
                        THEN [client EXCEPT ![p].figure = figure]
                        ELSE client
    /\ UNCHANGED <<boot, app, GraphUtils, requests>>

\* The exception leaves the callback: Dash answers 500 and the graph keeps
\* the figure it shows.
InternalServerError(p) ==
    /\ inv[p].pc = "raised"
    /\ inv' = [inv EXCEPT ![p] = Idle]
    /\ UNCHANGED <<boot, app, GraphUtils, client, remembered, requests>>

Request ==
    \E p \in Pages :
        \/ Visit(p)
        \/ \E i \in 1..Len(Options(p)) :
              \/ \E v \in Options(p)[i] : SelectOption(p, i, v)
              \/ \E v \in CraftedStrings : CraftedRequest(p, i, v)

Callback ==
    \E p \in Pages :
        \/ Construct(p)
        \/ BuildQuery(p)
        \/ \E available \in BOOLEAN : CreateDataframeCall(p, available)
        \/ CreateGraph(p)
        \/ FitModelCall(p)
        \/ DrawPlaneCall(p)
        \/ Return(p)
        \/ InternalServerError(p)

Next == Startup \/ Request \/ Callback

Spec == Init /\ [][Next]_vars

-----------------------------------------------------------------------------
(* One callback on any selection of a page's options                       *)

\* Every combination of option values of the page's radio buttons.
Selections(p) ==
    CASE p = "histograms" ->
           {<<species, sex, variable>> :
               species \in HistSpeciesOptions, sex \in HistSexOptions,
               variable \in VariableOptions}
      [] p = "linear_regression" ->
           {<<species, explanatory, response>> :
               species \in RegressionSpeciesOptions,
               explanatory \in VariableOptions, response \in VariableOptions}
      [] p = "multiple_regression" ->
           {<<species, first, second, response>> :
               species \in RegressionSpeciesOptions, first \in VariableOptions,
               second \in VariableOptions, response \in VariableOptions}

\* The server has started, a page shows some selection and no figure yet,
\* and its callback has been called with that selection.
InitSelection ==
    /\ boot = Len(AppScript)
    /\ app = After(Len(AppScript))
    /\ GraphUtils = ClassBody
    /\ \E p \in Pages : \E args \in Selections(p) :
          /\ client = [q \in Pages |->
                          IF q = p
                          THEN [loaded |-> TRUE, sel |-> args,
                                figure |-> EmptyFigure]
                          ELSE Unloaded]
          /\ inv = [q \in Pages |-> IF q = p THEN Called("ui", args) ELSE Idle]
    /\ remembered = Nothing
    /\ requests = 0

SpecSelection == InitSelection /\ [][Callback]_vars
-----------------------------------------------------------------------------
(* app.py with its three imports in any order                              *)

\* The statements that may run next: where app.py has an import, the
\* import of any page module not imported yet; else the statement of
\* app.py.
NextStatements ==
    IF AppScript[boot + 1].op = "import"
    THEN {Statement("import", m) : m \in Pages \ app.modules}
    ELSE {AppScript[boot + 1]}

StartupReordered ==
    /\ boot < Len(AppScript)
    /\ ~app.import_error
    /\ boot' = boot + 1
    /\ \E stmt \in NextStatements : app' = Execute(stmt, app)
    /\ GraphUtils' = IF "data_viz" \in app'.modules /\ "data_viz" \notin app.modules
                     THEN ClassBody ELSE GraphUtils
    /\ UNCHANGED <<client, inv, remembered, requests>>

SpecImportOrder == Init /\ [][StartupReordered \/ Request \/ Callback]_vars

-----------------------------------------------------------------------------
(* Callbacks of the three pages running at the same time                   *)

\* The selections of a page that keep the default of every variable and
\* of the sex, and have the default species or the Gentoo.
SpeciesSelections(p) ==
    {args \in Selections(p) :
        /\ args[1] \in {Defaults(p)[1], "'Gentoo%'",
                        " AND species LIKE 'Gentoo%'"}
        /\ \A i \in 2..Len(args) : args[i] = Defaults(p)[i]}

\* The server has started and runs requests in threads: the callback of
\* every page has been called, each with a selection of its page, and none
\* has taken a step.
InitConcurrent ==
    /\ boot = Len(AppScript)
    /\ app = After(Len(AppScript))
    /\ GraphUtils = ClassBody
    /\ \E args \in [Pages -> UNION {SpeciesSelections(p) : p \in Pages}] :
          /\ \A p \in Pages : args[p] \in SpeciesSelections(p)
          /\ client = [p \in Pages |->
                          [loaded |-> TRUE, sel |-> args[p],
                           figure |-> EmptyFigure]]
          /\ inv = [p \in Pages |-> Called("ui", args[p])]
    /\ remembered = Nothing
    /\ requests = 0

\* The steps of the three invocations in any interleaving.
SpecConcurrent == InitConcurrent /\ [][Callback]_vars

-----------------------------------------------------------------------------
(* The properties                                                          *)

\* What one invocation computes from its inputs and the readable database,
\* with nothing else to read: the object, its query, the cleaned frame and
\* the figure, method by method.
FigureOf(p, self, df) ==
    The({ IF p = "multiple_regression"
          THEN The({ DrawPlane(model.exog[1], model.exog[2], model, got.fig)
                     : model \in {FitModel(self, df)} })
          ELSE got.fig
          : got \in {CreateGraphOf(p, self, df)} })

FreshFigure(p, args) ==
    The({ UpdateGraph(p, FigureOf(p, self,
                          CreateDataframe(BuildQueryOf(p, self), TRUE).df))
          : self \in {New(p, args)} })

\* C1: a figure a callback has returned is the figure a computation from
\* scratch on the same input values yields, whatever was selected, shown or
\* requested before; and an invocation about to return, on the inputs of a
\* figure returned earlier, returns that same figure.
C1_FigureFromInputsAlone ==
    remembered # Nothing =>
        /\ remembered.figure = FreshFigure(remembered.page, remembered.args)
        /\ \A p \in Pages :
              /\ inv[p].pc = "figure"
              /\ remembered.page = p
              /\ remembered.args = inv[p].args
              => UpdateGraph(p, inv[p].fig) = remembered.figure

\* A radio button has been changed, and the graph shows the figure the
\* callback returned for the changed selection.
C1_Witness ==
    /\ remembered # Nothing
    /\ remembered.args # Defaults(remembered.page)
    /\ client[remembered.page].sel = remembered.args
    /\ client[remembered.page].figure = remembered.figure

\* The query texts the option lists of a page can produce.
OptionQueries(p) == {BuildQueryOf(p, New(p, args)) : args \in Selections(p)}

\* C2: every query that is executed is one the option strings of the page
\* produce, because every value concatenated into it is one of the fixed
\* option strings of its radio button.
C2_OnlyOptionStrings ==
    \A p \in Pages :
        inv[p].queries > 0 =>
            /\ \A i \in 1..Len(inv[p].args) : inv[p].args[i] \in Options(p)[i]
            /\ inv[p].query \in OptionQueries(p)

BeforeQuery == {"called", "constructed", "built"}
AfterQuery == {"loaded", "scattered", "fitted", "figure"}

\* C3: an invocation has created no engine, run no query and holds no
\* dataframe before its call of _create_dataframe, and has created exactly
\* one engine and run exactly one query after it, whether or not the same
\* inputs were served before.
C3_OneQueryPerInvocation ==
    \A p \in Pages :
        /\ inv[p].pc \in BeforeQuery =>
              inv[p].engines = 0 /\ inv[p].queries = 0 /\ inv[p].df = NoneValue
        /\ inv[p].pc \in AfterQuery =>
              inv[p].engines = 1 /\ inv[p].queries = 1
        /\ inv[p].pc = "raised" =>
              inv[p].engines = inv[p].queries /\ inv[p].queries \in {0, 1}

\* An invocation on inputs that were served before stands at its return,
\* having run its own query.
C3_Witness ==
    \E p \in Pages :
        /\ inv[p].pc = "figure"
        /\ inv[p].queries = 1
        /\ remembered.page = p
        /\ remembered.args = inv[p].args

\* The species and the sex an option value selects.
SpeciesOfOption ==
    (" AND species LIKE 'Adelie%'" :> Adelie) @@
    (" AND species LIKE 'Chinstrap%'" :> Chinstrap) @@
    (" AND species LIKE 'Gentoo%'" :> Gentoo) @@
    ("'Adelie%'" :> Adelie) @@ ("'Chinstrap%'" :> Chinstrap) @@
    ("'Gentoo%'" :> Gentoo)

SexOfOption ==
    (" AND sex LIKE 'MALE'" :> Str("MALE")) @@
    (" AND sex LIKE 'FEMALE'" :> Str("FEMALE"))

\* The page has a radio button that filters by sex.
HasSexFilter(p) == \E i \in 1..Len(Options(p)) : Options(p)[i] = HistSexOptions

\* The variables the selection names, in the order of the axes.
VariablesOf(p, args) ==
    IF p = "histograms" THEN <<args[3]>> ELSE SubSeq(args, 2, Len(args))

\* The row is of the selected species and, where the page has a sex
\* filter, of the selected sex.
RowSelected(p, args, row) ==
    /\ args[1] # "" => row.species = SpeciesOfOption[args[1]]
    /\ HasSexFilter(p) /\ args[2] # "" => row.sex = SexOfOption[args[2]]

\* A cell that holds a value: not NULL, and not an empty or blank string.
HoldsValue(cell) ==
    \/ cell.k = "num"
    \/ cell.k = "str" /\ \E i \in 1..Len(cell.s) : SubSeq(cell.s, i, i) # " "

\* The values of the named variables in rows, one sequence per axis.
AxesOf(rows, names) ==
    [a \in 1..Len(names) |-> [r \in 1..Len(rows) |-> rows[r][names[a]]]]

\* The points of the first trace of the figure, one sequence per axis.
Plotted(p, fig) ==
    CASE p = "histograms" -> <<fig.data[1].x>>
      [] p = "linear_regression" -> <<fig.data[1].x, fig.data[1].y>>
      [] p = "multiple_regression" ->
           <<fig.data[1].x, fig.data[1].y, fig.data[1].z>>

MatchingRows(p, args) ==
    SelectSeq(palmerpenguins, LAMBDA row : RowSelected(p, args, row))

\* C4 as stated: every page filters by species and by sex, and the rows
\* plotted are exactly the rows of the table that match the selection.
C4_PlotsMatchingRows ==
    \A p \in Pages :
        /\ HasSexFilter(p)
        /\ inv[p].pc = "figure" =>
              Plotted(p, inv[p].fig)
                = AxesOf(MatchingRows(p, inv[p].args),
                         VariablesOf(p, inv[p].args))

ValuedMatchingRows(p, args) ==
    SelectSeq(MatchingRows(p, args),
              LAMBDA row : \A a \in 1..Len(VariablesOf(p, args)) :
                               HoldsValue(row[VariablesOf(p, args)[a]]))

\* C4, amended: only the histograms page has a sex filter; the histogram is
\* filtered by species and sex and the two regressions by species; and the
\* rows plotted are the matching rows that hold a value in every selected
\* variable, the matching rows with a missing or blank one being left out.
C4_PlotsValuedMatchingRows ==
    \A p \in Pages :
        /\ HasSexFilter(p) <=> p = "histograms"
        /\ inv[p].pc = "figure" =>
              Plotted(p, inv[p].fig)
                = AxesOf(ValuedMatchingRows(p, inv[p].args),
                         VariablesOf(p, inv[p].args))

\* A histogram of one species and one sex is about to be returned: a row
\* that matches both is plotted and another, blank in the variable, is not.
C4_Witness ==
    LET h == inv["histograms"]
    IN  /\ h.pc = "figure"
        /\ h.args[1] # "" /\ h.args[2] # ""
        /\ Len(h.fig.data[1].x) > 0
        /\ Len(h.fig.data[1].x) < Len(MatchingRows("histograms", h.args))

\* C5: the text Histogram.build_query builds is the SELECT of the variable
\* from palmerpenguins with WHERE 1=1, then the species clause, then the sex
\* clause, each of the two being empty when unset: the four branches give
\* what appending both unconditionally gives.
C5_QueryIsSelectSpeciesSex ==
    LET h == inv["histograms"]
    IN  InSeq("build_query", h.calls) =>
            /\ h.query = SelectFrom(h.args[3]) \o h.args[1] \o h.args[2]
            /\ Tokens(SelectFrom(h.args[3]))
                 = <<"SELECT", h.args[3], "FROM", "palmerpenguins",
                     "WHERE", "1=1">>

\* build_query has taken its third branch: the sex filter alone is set.
C5_Witness ==
    LET h == inv["histograms"]
    IN  /\ h.pc = "built"
        /\ h.args[1] = "" /\ h.args[2] # ""
        /\ h.query = SelectFrom(h.args[3]) \o h.args[2]

\* C6: for every selection of the linear regression page, explanatory and
\* response being the same column included, the invocation fails only when
\* the query has failed, and otherwise returns a scattergraph of the two
\* columns with a least squares trendline as its second trace.
C6_ScatterWithTrendline ==
    LET l == inv["linear_regression"]
    IN  l.origin = "ui" =>
            /\ l.pc = "raised" => l.df.isNone
            /\ l.pc = "figure" =>
                  /\ Len(l.fig.data) = 2
                  /\ l.fig.data[1].type = "scatter"
                  /\ l.fig.data[2].type = "ols trendline"
                  /\ l.fig.xaxis_title = labels[l.args[2]]
                  /\ l.fig.yaxis_title = labels[l.args[3]]

StepsOfMultipleRegression ==
    <<"__init__", "build_query", "_create_dataframe", "_create_graph",
      "_fit_model", "_draw_plane">>

\* C7: for every selection of the multiple regression page, the invocation
\* fails only when the query has failed, and otherwise goes through its
\* steps in the one order (query, dataframe, 3D scattergraph, fit, plane)
\* and returns a figure of exactly two traces, the scatter and the plane.
C7_FixedStepsTwoTraces ==
    LET m == inv["multiple_regression"]
    IN  m.origin = "ui" =>
            /\ m.pc = "raised" => m.df.isNone
            /\ m.pc # "idle" =>
                  m.calls = SubSeq(StepsOfMultipleRegression, 1, Len(m.calls))
            /\ m.pc = "figure" =>
                  /\ m.calls = StepsOfMultipleRegression
                  /\ Len(m.fig.data) = 2
                  /\ m.fig.data[1].type = "scatter3d"
                  /\ m.fig.data[2].type = "surface"

FiveRoutes ==
    /\ Cardinality(app.routes) = 5
    /\ {r.rule : r \in app.routes}
         = {"/", "/glossary/", "/histograms/", "/linear_regression/",
            "/multiple_regression/"}
    /\ \A p \in Pages : \E r \in app.routes :
          /\ r.serves = p
          /\ r.rule = "/" \o p \o "/"
          /\ \A q \in Pages \ {p} : r.rule # UrlBasePathname(q)

\* C9: the started server serves the three chart pages at pairwise distinct
\* prefixes beside / and /glossary/, and a step that changes what one page
\* shows is a step of that page's own request or callback and leaves the
\* buttons and the graph of every other page as they are.
C9_OnePageOnly ==
    [][ /\ Serving => FiveRoutes
        /\ \A p \in Pages :
              client'[p] # client[p] =>
                  /\ inv'[p] # inv[p]
                  /\ \A q \in Pages \ {p} :
                        client'[q] = client[q] /\ inv'[q] = inv[q] ]_vars

\* Two pages show a figure each: the callback of the one returned while the
\* other was showing its own.
C9_Witness ==
    /\ Serving
    /\ \E p, q \in Pages :
          /\ p # q
          /\ client[p].figure # EmptyFigure
          /\ client[q].figure # EmptyFigure
          /\ client[p].figure # client[q].figure

\* The query of the invocation has been run and has failed.
QueryFailed(p) == InSeq("_create_dataframe", inv[p].calls) /\ inv[p].df.isNone

\* C10: when the query fails, _create_dataframe has logged the error once,
\* has run the query once and not again, and has returned None; the
\* invocation then ends with the exception _create_graph raises on None
\* (AttributeError in the histogram, ValueError in the two regressions),
\* never reaches a figure, and the graph keeps what it shows.
C10_NoRecovery ==
    [][ \A p \in Pages :
          QueryFailed(p) =>
              /\ inv[p].logged = 1 /\ inv[p].queries = 1 /\ inv[p].engines = 1
              /\ inv[p].pc \in {"loaded", "raised"}
              /\ inv[p].pc = "loaded" /\ inv'[p] # inv[p] =>
                    /\ inv'[p].pc = "raised"
                    /\ inv'[p].raised = IF p = "histograms"
                                        THEN "AttributeError" ELSE "ValueError"
                    /\ inv'[p].queries = 1
              /\ inv[p].pc = "raised" /\ inv'[p] # inv[p] => inv'[p] = Idle
              /\ client' = client
              /\ remembered' = remembered ]_vars

\* A page shows a figure, the query of its next request has failed and the
\* invocation has ended with an exception.
C10_Witness ==
    \E p \in Pages :
        /\ QueryFailed(p)
        /\ inv[p].origin = "ui"
        /\ inv[p].pc = "raised"
        /\ inv[p].logged = 1
        /\ client[p].figure # EmptyFigure

\* C11: with the callbacks of the three pages interleaved in any way, the
\* class dictionaries stay as the class body wrote them; every invocation
\* holds the object, the query and the dataframe made from its own inputs;
\* and the figure an invocation returns, and the one its page then shows,
\* is the figure the same inputs give when the invocation runs alone.
C11_SameFigureAsAlone ==
    /\ GraphUtils = ClassBody
    /\ \A p \in Pages :
          /\ inv[p].pc \in {"constructed", "built"} \cup AfterQuery =>
                inv[p].self = New(p, inv[p].args)
          /\ inv[p].pc \in {"built"} \cup AfterQuery =>
                inv[p].query = BuildQueryOf(p, New(p, inv[p].args))
          /\ inv[p].pc \in AfterQuery /\ ~inv[p].df.isNone =>
                inv[p].df = CreateDataframe(inv[p].query, TRUE).df
          /\ inv[p].pc = "figure" =>
                UpdateGraph(p, inv[p].fig) = FreshFigure(p, inv[p].args)
          /\ client[p].figure # EmptyFigure =>
                client[p].figure = FreshFigure(p, client[p].sel)

\* Three invocations overlap: one has returned its figure, one is about to
\* and one has its dataframe and no figure yet.
C11_Witness ==
    \E p, q, r \in Pages :
        /\ client[p].figure # EmptyFigure /\ inv[p].pc = "idle"
        /\ inv[q].pc = "figure"
        /\ inv[r].pc = "loaded" /\ ~inv[r].df.isNone
        /\ inv[q].args[1] = inv[r].args[1]

\* The colour of each species option and of each sex option.
ColourOfSpeciesOption ==
    (" AND species LIKE 'Adelie%'" :> "deeppink") @@
    (" AND species LIKE 'Chinstrap%'" :> "black") @@
    (" AND species LIKE 'Gentoo%'" :> "darkorange")

ColourOfSexOption ==
    (" AND sex LIKE 'MALE'" :> "green") @@ (" AND sex LIKE 'FEMALE'" :> "yellow")

\* C12: for every species and sex option of the histograms page the colour
\* lookup raises nothing (the invocation fails only when its query has
\* failed), and the bars have the colour of the selected species whatever
\* the sex, else the colour of the selected sex, else cornflowerblue; the
\* key of a species is its clause without the 18 characters
\* " AND species LIKE ", and is a key of GraphUtils.colours.
C12_ColourPrecedence ==
    LET h == inv["histograms"]
    IN  /\ h.pc = "raised" => h.df.isNone /\ h.raised = "AttributeError"
        /\ h.pc \in {"constructed", "built"} \cup AfterQuery /\ h.args[1] # "" =>
              /\ Len(" AND species LIKE ") = 18
              /\ " AND species LIKE " \o HistogramColourKey(h.self) = h.args[1]
              /\ HistogramColourKey(h.self) \in DOMAIN colours
        /\ h.pc = "figure" =>
              /\ Len(h.fig.data) = 1
              /\ h.fig.data[1].marker_color =
                    IF h.args[1] # "" THEN ColourOfSpeciesOption[h.args[1]]
                    ELSE IF h.args[2] # "" THEN ColourOfSexOption[h.args[2]]
                    ELSE "cornflowerblue"

\* A histogram of one species and one sex is about to be returned in the
\* colour of the species, which is not the colour of the sex.
C12_Witness ==
    LET h == inv["histograms"]
    IN  /\ h.pc = "figure"
        /\ h.args[1] # "" /\ h.args[2] # ""
        /\ h.fig.data[1].marker_color = ColourOfSpeciesOption[h.args[1]]
        /\ h.fig.data[1].marker_color # ColourOfSexOption[h.args[2]]

\* C13: whatever the order of the three imports, the import of
\* linear_regression succeeds only after histograms or multiple_regression
\* has been imported, and an import fails only when none has been imported
\* before it; as long as the imports go in the order of app.py none fails;
\* and a request is made only after all of app.py has run, with the three
\* modules imported and the three Dash applications mounted.
C13_ImportOrder ==
    [][ /\ "linear_regression" \in app'.modules \ app.modules =>
               /\ app.modules \cap {"histograms", "multiple_regression"} # {}
               /\ InSeq("plotly_dash/", app.sys_path)
        /\ app'.import_error /\ ~app.import_error =>
               /\ app.modules = {}
               /\ ~InSeq("plotly_dash/", app'.sys_path)
        /\ app' = After(boot') => ~app'.import_error
        /\ requests' > 0 =>
               /\ boot' = Len(AppScript)
               /\ ~app'.import_error
               /\ Pages \subseteq app'.modules
               /\ \A p \in Pages :
                     [rule |-> "/" \o p \o "/", serves |-> p] \in app'.routes
      ]_vars

\* The first import was that of linear_regression and has failed:
\* plotly_dash/ is not on sys.path, no module is imported and the start has
\* ended before any Dash application is mounted.
C13_Witness ==
    /\ app.import_error
    /\ app.modules = {}
    /\ app.sys_path = <<"././">>
    /\ app.routes = {}
====
